---- MODULE Spec2Model ----
(***************************************************************************)
(* A model of the RAPL sampling engine of powermon (src/src/Rapl.cpp).     *)
(*                                                                         *)
(* Numbers.  The code computes on uint64_t and masks counters to 32 bits.  *)
(* TLC's integers are 32-bit signed, so a uint64_t is modelled exactly as  *)
(* a tuple of four 16-bit limbs, least significant first:                  *)
(*     <<l1, l2, l3, l4>>  stands for  l1 + l2*2^16 + l3*2^32 + l4*2^48.   *)
(* Add64 and Sub64 are C's unsigned + and - (modulo 2^64).                 *)
(***************************************************************************)
EXTENDS Integers, Sequences, FiniteSets, TLC

VARIABLES
    pc,             \* position of the one thread of control
    i,              \* loop index of the loop in progress (constructor, reset(), sample())
    exit_code,      \* NotExited, or the code the process terminated with
    env,            \* what the machine answers: cpuid, the sysfs topology files
    now,            \* the wall clock read by gettimeofday, in ticks
    vendor, n_sockets, pp1_supported, sockets, first_lcoreid,
    fd,             \* fd[socket]
    fdtable,        \* the process's open register devices: descriptor FirstFd+k-1 is core fdtable[k]
    last_open,      \* history: the last call of open_msr and what open answered
    units,          \* power_units, energy_units, time_units and the static power info
    heap, brk,      \* the rapl_state_t records allocated by new, and the number allocated
    prev_state, current_state, next_state, running_total,
    reads,          \* history: the read_msr calls of the last step, in order
    hist,           \* history, per socket: the snapshot totals were zeroed at, samples since
    nsamples, nresets,
    probe           \* harness of the pure function energy_delta: arguments and result

vars == <<pc, i, exit_code, env, now, vendor, n_sockets, pp1_supported, sockets,
          first_lcoreid, fd, fdtable, last_open, units, heap, brk, prev_state,
          current_state, next_state, running_total, reads, hist, nsamples, nresets,
          probe>>

----------------------------------------------------------------------------
(* uint64_t arithmetic on limbs *)

LimbBase == 2 ^ 16


Zero64 == <<0, 0, 0, 0>>

\* a small non-negative int as a uint64_t
Lit(n) == <<n % LimbBase, n \div LimbBase, 0, 0>>

\* a + b on uint64_t (wraps modulo 2^64)
Add64(a, b) ==
    LET s1 == a[1] + b[1]
        s2 == a[2] + b[2] + (s1 \div LimbBase)
        s3 == a[3] + b[3] + (s2 \div LimbBase)
        s4 == a[4] + b[4] + (s3 \div LimbBase)
    IN  <<s1 % LimbBase, s2 % LimbBase, s3 % LimbBase, s4 % LimbBase>>

\* a - b on uint64_t (wraps modulo 2^64)
Sub64(a, b) ==
    LET d1 == a[1] - b[1]
        w1 == IF d1 < 0 THEN 1 ELSE 0
        d2 == a[2] - b[2] - w1
        w2 == IF d2 < 0 THEN 1 ELSE 0
        d3 == a[3] - b[3] - w2
        w3 == IF d3 < 0 THEN 1 ELSE 0
        d4 == a[4] - b[4] - w3
    IN  <<d1 % LimbBase, d2 % LimbBase, d3 % LimbBase, d4 % LimbBase>>

\* a > b on uint64_t
Gt64(a, b) ==
    \/ a[4] > b[4]
    \/ a[4] = b[4] /\ a[3] > b[3]
    \/ a[4] = b[4] /\ a[3] = b[3] /\ a[2] > b[2]
    \/ a[4] = b[4] /\ a[3] = b[3] /\ a[2] = b[2] /\ a[1] > b[1]

Ge64(a, b) == ~ Gt64(b, a)

\* ~((uint32_t) 0) widened to uint64_t: 2^32 - 1
max_int == <<LimbBase - 1, LimbBase - 1, 0, 0>>

\* x & max_int
Mask32(x) == <<x[1], x[2], 0, 0>>

\* x is a 32-bit value
Is32(x) == x[3] = 0 /\ x[4] = 0

----------------------------------------------------------------------------
(* Rapl::energy_delta *)

\* a delta that also takes before = after for a rollover
energy_delta_rollover_on_equal(before, after) ==
    IF Ge64(before, after)
    THEN Add64(after, Sub64(max_int, before))
    ELSE Sub64(after, before)

energy_delta(before, after) ==
    LET eng_delta == Sub64(after, before)
    IN  IF Gt64(before, after)
        THEN Add64(after, Sub64(max_int, before))
        ELSE eng_delta

----------------------------------------------------------------------------
(* Register offsets (uint32_t, as <<low 16 bits, high 16 bits>>) and CPU    *)
(* signatures.                                                              *)

MSR_RAPL_POWER_UNIT    == <<1542, 0>>       \* 0x606
MSR_PKG_ENERGY_STATUS  == <<1553, 0>>       \* 0x611
MSR_PKG_POWER_INFO     == <<1556, 0>>       \* 0x614
MSR_PP0_ENERGY_STATUS  == <<1593, 0>>       \* 0x639
MSR_PP1_ENERGY_STATUS  == <<1601, 0>>       \* 0x641
MSR_DRAM_ENERGY_STATUS == <<1561, 0>>       \* 0x619
AMD_MSR_PWR_UNIT       == <<665, 49153>>    \* 0xC0010299
AMD_MSR_PACKAGE_ENERGY == <<667, 49153>>    \* 0xC001029B

IVYBRIDGE_E   == 198384     \* 0x306F0
SANDYBRIDGE_E == 132816     \* 0x206D0
BROADWELL_E   == 263920     \* 0x406F0

\* eax & SIGNATURE_MASK, SIGNATURE_MASK = 0xFFFF0
SignatureOf(eax) == ((eax \div 16) % 65536) * 16

\* capacity of sockets[], first_lcoreid[], fd[] and the per-socket pointer arrays
\* (MAX_SOCKETS of Rapl.h)
MAX_SOCKETS == 3

SocketIdx == 0 .. MAX_SOCKETS - 1

NotExited == -1

----------------------------------------------------------------------------
(* Rapl::get_vendor, Rapl::detect_pp1 *)

get_vendor(vendor_str) == IF vendor_str = "AuthenticAMD" THEN 1 ELSE 0

detect_pp1(v, eax) ==
    LET cpu_signature == SignatureOf(eax)
    IN  IF \/ v = 1
           \/ cpu_signature = SANDYBRIDGE_E
           \/ cpu_signature = IVYBRIDGE_E
           \/ cpu_signature = BROADWELL_E
        THEN FALSE
        ELSE TRUE

----------------------------------------------------------------------------
(* Rapl::get_n_sockets.  The line of /sys/devices/system/cpu/online is a    *)
(* sequence of tokens, each a single cpu <<a>> or a range <<a, b>> (what    *)
(* strtok(",") and sscanf("%d-%d") / atoi make of the text).                *)

RECURSIVE ExpandRange(_, _)
ExpandRange(start, end) ==
    IF start > end THEN <<>> ELSE <<start>> \o ExpandRange(start + 1, end)

\* the cpu[] array filled by the parsing loop: cpu[1..n], n = Len
RECURSIVE ParseOnline(_)
ParseOnline(tokens) ==
    IF tokens = <<>> THEN <<>>
    ELSE LET token == Head(tokens)
         IN  (IF Len(token) = 2
              THEN ExpandRange(token[1], token[2])
              ELSE <<token[1]>>)
             \o ParseOnline(Tail(tokens))

NoSockets == [sockets |-> [k \in SocketIdx |-> -1],
              first_lcoreid |-> [k \in SocketIdx |-> -1],
              failed |-> FALSE]

\* lines 475-478: what the grouping loop records for cpu[i], i = idx, of package id
RecordFirst(acc, cpu, idx, id) ==
    IF acc.sockets[id] = -1
    THEN [acc EXCEPT !.sockets[id] = 1, !.first_lcoreid[id] = idx]
    ELSE acc

\* the grouping loop, for (i = idx; i < n; i++); a cpu with no
\* physical_package_id file ends the process
RECURSIVE GroupLoop(_, _, _, _)
GroupLoop(acc, cpu, idx, package_id) ==
    IF idx >= Len(cpu) THEN acc
    ELSE IF cpu[idx + 1] \notin DOMAIN package_id
         THEN [acc EXCEPT !.failed = TRUE]
         ELSE GroupLoop(RecordFirst(acc, cpu, idx, package_id[cpu[idx + 1]]),
                        cpu, idx + 1, package_id)

get_n_sockets(online, package_id) ==
    LET cpu == ParseOnline(online)
        g   == GroupLoop(NoSockets, cpu, 0, package_id)
    IN  [sockets |-> g.sockets,
         first_lcoreid |-> g.first_lcoreid,
         failed |-> g.failed,
         count |-> Cardinality({k \in SocketIdx : g.sockets[k] = 1})]

----------------------------------------------------------------------------
(* rapl_state_t records.  A record is {pkg, pp0, pp1, dram: uint64_t;       *)
(* tsc: struct timeval}.  tsc is held as one integer, the number of clock   *)
(* ticks since the process started, so time_delta is a difference of ticks  *)
(* and is zero exactly when the two timestamps are equal.  The field wr is  *)
(* history: the fields assigned with = since the record was allocated.      *)
(* new rapl_state_t leaves the fields uninitialized: what they hold is the  *)
(* fill the allocator happens to hand out, all bits zero or all bits one,   *)
(* chosen with the machine.                                                 *)

Domains == {"pkg", "pp0", "pp1", "dram"}

Fields == Domains \cup {"tsc"}

Fills == {"zeros", "ones"}

\* distance in ticks from the epoch of struct timeval to the start of the process
EpochTicks == 100

FillWord(f) == IF f = "zeros" THEN Zero64
               ELSE <<LimbBase - 1, LimbBase - 1, LimbBase - 1, LimbBase - 1>>

FillTsc(f) == IF f = "zeros" THEN 0 - EpochTicks ELSE 0 - EpochTicks - 1

Uninit(f) == [pkg |-> FillWord(f), pp0 |-> FillWord(f), pp1 |-> FillWord(f),
              dram |-> FillWord(f), tsc |-> FillTsc(f), wr |-> {}]

NullPtr == 0

NoPtrs == [k \in SocketIdx |-> NullPtr]

Set(rec, f, x) == [rec EXCEPT ![f] = x, !.wr = @ \cup {f}]

----------------------------------------------------------------------------
(* Rapl::read_msr and the register reads of Rapl::sample(int).              *)
(* The statements of sample(int) that fill next_state[socket], in order:    *)
(* a read assigns read_msr(socket, msr) & max_int, a zero assigns 0.        *)

Rd(f, m) == [op |-> "read", field |-> f, msr |-> m]
Zr(f)    == [op |-> "zero", field |-> f, msr |-> <<0, 0>>]

SamplePlan_swapped(v, pp1) ==
    IF v = 0
    THEN IF pp1
         THEN <<Rd("pkg", MSR_PKG_ENERGY_STATUS), Rd("pp0", MSR_PP0_ENERGY_STATUS),
                Zr("pp1"), Rd("dram", MSR_DRAM_ENERGY_STATUS)>>
         ELSE <<Rd("pkg", MSR_PKG_ENERGY_STATUS), Rd("pp0", MSR_PP0_ENERGY_STATUS),
                Rd("pp1", MSR_PP1_ENERGY_STATUS), Zr("dram")>>
    ELSE <<Rd("pkg", AMD_MSR_PACKAGE_ENERGY), Zr("pp0"), Zr("pp1"), Zr("dram")>>

SamplePlan(v, pp1) ==
    IF v = 0
    THEN IF pp1
         THEN <<Rd("pkg", MSR_PKG_ENERGY_STATUS), Rd("pp0", MSR_PP0_ENERGY_STATUS),
                Rd("pp1", MSR_PP1_ENERGY_STATUS), Zr("dram")>>
         ELSE <<Rd("pkg", MSR_PKG_ENERGY_STATUS), Rd("pp0", MSR_PP0_ENERGY_STATUS),
                Zr("pp1"), Rd("dram", MSR_DRAM_ENERGY_STATUS)>>
    ELSE <<Rd("pkg", AMD_MSR_PACKAGE_ENERGY), Zr("pp0"), Zr("pp1"), Zr("dram")>>

NumReads(plan) == Cardinality({k \in DOMAIN plan : plan[k].op = "read"})

ReadFields(plan) == {plan[k].field : k \in {j \in DOMAIN plan : plan[j].op = "read"}}

\* one pread of 8 bytes on fd[socket]: ok with the register's value, or short
PreadOk(s, m, data) == [socket |-> s, fd |-> fd[s], msr |-> m, ok |-> TRUE, data |-> data]
PreadShort(s, m)    == [socket |-> s, fd |-> fd[s], msr |-> m, ok |-> FALSE, data |-> Zero64]

\* read_msr that returns data although pread came back short
read_msr_ignoring_short(s, m, regs, short) ==
    [exited |-> FALSE, data |-> regs[m],
     call |-> IF short THEN PreadShort(s, m) ELSE PreadOk(s, m, regs[m])]

\* Rapl::read_msr: the value, or exit(127) when pread returns anything but 8
read_msr(s, m, regs, short) ==
    IF short
    THEN [exited |-> TRUE, data |-> Zero64, call |-> PreadShort(s, m)]
    ELSE [exited |-> FALSE, data |-> regs[m], call |-> PreadOk(s, m, regs[m])]

\* runs the statements plan[k..] on record rec; the failAt-th read (0: none) is short
RECURSIVE FillNext(_, _, _, _, _, _, _, _)
FillNext(plan, k, rec, s, regs, nread, failAt, log) ==
    IF k > Len(plan) THEN [rec |-> rec, log |-> log, exited |-> FALSE]
    ELSE IF plan[k].op = "zero"
         THEN FillNext(plan, k + 1, Set(rec, plan[k].field, Zero64), s, regs, nread,
                       failAt, log)
         ELSE LET r == read_msr(s, plan[k].msr, regs, nread + 1 = failAt)
              IN  IF r.exited
                  THEN [rec |-> rec, log |-> Append(log, r.call), exited |-> TRUE]
                  ELSE FillNext(plan, k + 1, Set(rec, plan[k].field, Mask32(r.data)),
                                s, regs, nread + 1, failAt, Append(log, r.call))

----------------------------------------------------------------------------
(* The environment: what the registers and the clock answer.                *)

\* the energy registers of a package at one instant
Regs(pkg, pp0, pp1, dram) ==
    [m \in {MSR_PKG_ENERGY_STATUS, AMD_MSR_PACKAGE_ENERGY, MSR_PP0_ENERGY_STATUS,
            MSR_PP1_ENERGY_STATUS, MSR_DRAM_ENERGY_STATUS} |->
        CASE m = MSR_PKG_ENERGY_STATUS  -> pkg
          [] m = AMD_MSR_PACKAGE_ENERGY -> pkg
          [] m = MSR_PP0_ENERGY_STATUS  -> pp0
          [] m = MSR_PP1_ENERGY_STATUS  -> pp1
          [] m = MSR_DRAM_ENERGY_STATUS -> dram]

\* three instants, every counter strictly larger at the later one; the reserved
\* upper 32 bits of a register are not always zero
Readings ==
    { Regs(Lit(1), Lit(0), Lit(3), Lit(4)),
      Regs(<<LimbBase - 1, LimbBase - 1, 7, 0>>, Lit(5), <<10, 0, 1, 0>>, <<6, 0, 0, 1>>) }

\* the clock stops advancing at MaxTime
MaxTime == 1

ClockSteps == {adv \in {0, 1} : now + adv <= MaxTime}

----------------------------------------------------------------------------
(* Rapl::sample(int) *)

\* an update that also restarts the total's clock at the new snapshot
UpdateRunningTotal_restamps(rt, cur, nxt) ==
    [rt EXCEPT !.pkg  = Add64(@, energy_delta(cur.pkg, nxt.pkg)),
               !.pp0  = Add64(@, energy_delta(cur.pp0, nxt.pp0)),
               !.pp1  = Add64(@, energy_delta(cur.pp0, nxt.pp0)),
               !.dram = Add64(@, energy_delta(cur.dram, nxt.dram)),
               !.tsc  = nxt.tsc]

\* an update that adds to each total the delta of its own domain
UpdateRunningTotal_own_delta(rt, cur, nxt) ==
    [rt EXCEPT !.pkg  = Add64(@, energy_delta(cur.pkg, nxt.pkg)),
               !.pp0  = Add64(@, energy_delta(cur.pp0, nxt.pp0)),
               !.pp1  = Add64(@, energy_delta(cur.pp1, nxt.pp1)),
               !.dram = Add64(@, energy_delta(cur.dram, nxt.dram))]

\* lines 274-278: running_total[socket]->x += energy_delta(current->y, next->y)
UpdateRunningTotal(rt, cur, nxt) ==
    [rt EXCEPT !.pkg  = Add64(@, energy_delta(cur.pkg, nxt.pkg)),
               !.pp0  = Add64(@, energy_delta(cur.pp0, nxt.pp0)),
               !.pp1  = Add64(@, energy_delta(cur.pp0, nxt.pp0)),
               !.dram = Add64(@, energy_delta(cur.dram, nxt.dram))]

\* history of a socket: caps, the last two snapshots sample() captured since the
\* slots were allocated; zeroed, whether reset() has finished with the socket;
\* base, the counters of the snapshot that was current then; n, the samples taken
\* since; incr, whether every counter read grew strictly at each of them
NoHist == [caps |-> <<>>, base |-> [d \in Domains |-> Zero64], n |-> 0, incr |-> TRUE,
           zeroed |-> FALSE]

Snapshot(rec) == [f \in Fields |-> rec[f]]

Last2(caps, snap) == IF Len(caps) < 2 THEN Append(caps, snap) ELSE <<caps[2], snap>>

\* a sample that swaps current and next and never reuses the old previous
sample_two_slot_swap(s, regs, failAt, adv, pc_next, i_next) ==
    LET plan   == SamplePlan(vendor, pp1_supported)
        filled == FillNext(plan, 1, heap[next_state[s]], s, regs, 0, failAt, <<>>)
    IN  /\ reads' = filled.log
        /\ IF filled.exited
           THEN /\ heap' = [heap EXCEPT ![next_state[s]] = filled.rec]
                /\ exit_code' = 127
                /\ pc' = "exited"
                /\ UNCHANGED <<i, now, prev_state, current_state, next_state, hist>>
           ELSE LET t   == now + adv
                    nxt == Set(filled.rec, "tsc", t)
                    cur == heap[current_state[s]]
                    rt  == UpdateRunningTotal(heap[running_total[s]], cur, nxt)
                IN  /\ now' = t
                    /\ heap' = [heap EXCEPT ![next_state[s]] = nxt,
                                            ![running_total[s]] = rt]
                    /\ prev_state' = [prev_state EXCEPT ![s] = current_state[s]]
                    /\ current_state' = [current_state EXCEPT ![s] = next_state[s]]
                    /\ next_state' = [next_state EXCEPT ![s] = current_state[s]]
                    /\ hist' = [hist EXCEPT
                                  ![s].caps = Last2(@, Snapshot(nxt)),
                                  ![s].n = @ + 1,
                                  ![s].incr = @ /\ \A f \in ReadFields(plan) :
                                                      Gt64(nxt[f], cur[f])]
                    /\ pc' = pc_next
                    /\ i' = i_next
                    /\ UNCHANGED exit_code
        /\ UNCHANGED <<env, vendor, n_sockets, pp1_supported, sockets, first_lcoreid,
                       fd, fdtable, last_open, units, brk, running_total, probe>>

\* sample(s) with the registers holding regs, the failAt-th read short (0: none)
\* and the clock adv ticks further on at gettimeofday; the caller goes on at
\* pc_next with loop index i_next
sample(s, regs, failAt, adv, pc_next, i_next) ==
    LET plan   == SamplePlan(vendor, pp1_supported)
        filled == FillNext(plan, 1, heap[next_state[s]], s, regs, 0, failAt, <<>>)
    IN  /\ reads' = filled.log
        /\ IF filled.exited
           THEN /\ heap' = [heap EXCEPT ![next_state[s]] = filled.rec]
                /\ exit_code' = 127
                /\ pc' = "exited"
                /\ UNCHANGED <<i, now, prev_state, current_state, next_state, hist>>
           ELSE LET t   == now + adv
                    nxt == Set(filled.rec, "tsc", t)
                    cur == heap[current_state[s]]
                    rt  == UpdateRunningTotal(heap[running_total[s]], cur, nxt)
                IN  /\ now' = t
                    /\ heap' = [heap EXCEPT ![next_state[s]] = nxt,
                                            ![running_total[s]] = rt]
                    /\ prev_state' = [prev_state EXCEPT ![s] = current_state[s]]
                    /\ current_state' = [current_state EXCEPT ![s] = next_state[s]]
                    /\ next_state' = [next_state EXCEPT ![s] = prev_state[s]]
                    /\ hist' = [hist EXCEPT
                                  ![s].caps = Last2(@, Snapshot(nxt)),
                                  ![s].n = @ + 1,
                                  ![s].incr = @ /\ \A f \in ReadFields(plan) :
                                                      Gt64(nxt[f], cur[f])]
                    /\ pc' = pc_next
                    /\ i' = i_next
                    /\ UNCHANGED exit_code
        /\ UNCHANGED <<env, vendor, n_sockets, pp1_supported, sockets, first_lcoreid,
                       fd, fdtable, last_open, units, brk, running_total, probe>>

----------------------------------------------------------------------------
(* The constructor Rapl::Rapl, one action per step.  get_smt and            *)
(* get_n_logical_cores only store two cpuid answers that nothing else       *)
(* reads; they are left out.                                                *)

Running == exit_code = NotExited

Exit(code) == exit_code' = code /\ pc' = "exited"

\* a reset() that returns at once
ResetEntry_skipped == "idle"

\* where reset() starts: its loop body, or its end when there is no socket
ResetEntry == IF 0 < n_sockets THEN "reset_new" ELSE "idle"

Ctor_get_vendor ==
    /\ Running /\ pc = "get_vendor"
    /\ vendor' = get_vendor(env.vendor_str)
    /\ pc' = "get_n_sockets"
    /\ reads' = <<>>
    /\ UNCHANGED <<i, exit_code, env, now, n_sockets, pp1_supported, sockets,
                   first_lcoreid, fd, fdtable, last_open, units, heap, brk, prev_state,
                   current_state, next_state, running_total, hist, nsamples,
                   nresets, probe>>

Ctor_get_n_sockets ==
    /\ Running /\ pc = "get_n_sockets"
    /\ LET r == get_n_sockets(env.online, env.package_id)
       IN  /\ sockets' = r.sockets
           /\ first_lcoreid' = r.first_lcoreid
           /\ IF r.failed
              THEN Exit(1) /\ UNCHANGED n_sockets
              ELSE n_sockets' = r.count /\ pc' = "detect_pp1" /\ UNCHANGED exit_code
    /\ reads' = <<>>
    /\ UNCHANGED <<i, env, now, vendor, pp1_supported, fd, fdtable, last_open, units, heap, brk,
                   prev_state, current_state, next_state, running_total, hist,
                   nsamples, nresets, probe>>

Ctor_detect_pp1 ==
    /\ Running /\ pc = "detect_pp1"
    /\ pp1_supported' = detect_pp1(vendor, env.eax)
    /\ i' = 0
    /\ pc' = IF n_sockets > 0 THEN "open_msr" ELSE "read_units"
    /\ reads' = <<>>
    /\ UNCHANGED <<exit_code, env, now, vendor, n_sockets, sockets, first_lcoreid, fd,
                   fdtable, last_open, units, heap, brk, prev_state, current_state, next_state,
                   running_total, hist, nsamples, nresets, probe>>

\* descriptors 0, 1, 2 are the standard streams; the topology files are closed again
FirstFd == 3

\* what open("/dev/cpu/<cpuCore>/msr", O_RDONLY) can answer: there is no device
\* node for a core id that is no cpu of the machine
OpenOutcomes(cpuCore) ==
    IF cpuCore \in env.present
    THEN {"ok", "ENXIO", "EIO", "EACCES"}
    ELSE {"ENOENT"}

open_msr_exit_always_127(errno) == 127

\* the termination code of open_msr for a failed open
open_msr_exit(errno) ==
    IF errno = "ENXIO" THEN 2
    ELSE IF errno = "EIO" THEN 3
    ELSE 127

\* Rapl::open_msr(socket, cpuCore), the open answering outcome
open_msr(socket, cpuCore, outcome) ==
    IF outcome = "ok"
    THEN /\ fdtable' = Append(fdtable, cpuCore)
         /\ fd' = [fd EXCEPT ![socket] = FirstFd + Len(fdtable)]
         /\ UNCHANGED exit_code
    ELSE /\ fd' = [fd EXCEPT ![socket] = -1]
         /\ exit_code' = open_msr_exit(outcome)
         /\ UNCHANGED fdtable

Ctor_open_msr ==
    /\ Running /\ pc = "open_msr"
    /\ \E outcome \in OpenOutcomes(first_lcoreid[i]) :
          /\ open_msr(i, first_lcoreid[i], outcome)
          /\ last_open' = [socket |-> i, cpuCore |-> first_lcoreid[i], outcome |-> outcome]
          /\ IF outcome = "ok"
             THEN /\ i' = i + 1
                  /\ pc' = IF i + 1 < n_sockets THEN "open_msr" ELSE "read_units"
             ELSE pc' = "exited" /\ UNCHANGED i
    /\ reads' = <<>>
    /\ UNCHANGED <<env, now, vendor, n_sockets, pp1_supported, sockets, first_lcoreid,
                   units, heap, brk, prev_state, current_state, next_state,
                   running_total, hist, nsamples, nresets, probe>>

\* a decoding that takes the whole second byte as the energy exponent
DecodeUnits_whole_byte(raw_value) ==
    [power_units  |-> raw_value[1] % 16,
     energy_units |-> (raw_value[1] \div 256) % 256,
     time_units   |-> raw_value[2] % 16]

\* power_units, energy_units and time_units are 0.5^n; the record holds n
DecodeUnits(raw_value) ==
    [power_units  |-> raw_value[1] % 16,
     energy_units |-> (raw_value[1] \div 256) % 32,
     time_units   |-> raw_value[2] % 16]

\* thermal_spec_power, minimum_power, maximum_power are power_units * m and
\* time_window is time_units * m; the record holds the four m
DecodePowerInfo(raw_value) ==
    [thermal_spec_power |-> raw_value[1] % 32768,
     minimum_power      |-> raw_value[2] % 32768,
     maximum_power      |-> raw_value[3] % 32768,
     time_window        |-> raw_value[4] % 32768]

NoPowerInfo == [thermal_spec_power |-> 0, minimum_power |-> 0, maximum_power |-> 0,
                time_window |-> 0]

NoUnits == [power_units |-> -1, energy_units |-> -1, time_units |-> -1,
            info |-> NoPowerInfo]

\* the unit register of the example of the specification (power 0b0011, energy
\* 0b01110, time 0b1010), with bits set outside the three fields
UnitRaws == { <<3 + 14 * 256 + 57584, 10 + 65520, 1, 0>> }

PowerInfoRaws == { <<520 + 32768, 384, 976, 13>> }

Ctor_read_units ==
    /\ Running /\ pc = "read_units"
    /\ \E raw \in UnitRaws, short \in BOOLEAN :
          LET m == IF vendor = 0 THEN MSR_RAPL_POWER_UNIT ELSE AMD_MSR_PWR_UNIT
              r == read_msr(0, m, [x \in {m} |-> raw], short)
          IN  /\ reads' = <<r.call>>
              /\ IF r.exited
                 THEN Exit(127) /\ UNCHANGED units
                 ELSE /\ units' = DecodeUnits(r.data) @@ [info |-> NoPowerInfo]
                      /\ pc' = "power_info"
                      /\ UNCHANGED exit_code
    /\ UNCHANGED <<i, env, now, vendor, n_sockets, pp1_supported, sockets,
                   first_lcoreid, fd, fdtable, last_open, heap, brk, prev_state, current_state,
                   next_state, running_total, hist, nsamples, nresets, probe>>

Ctor_power_info ==
    /\ Running /\ pc = "power_info"
    /\ IF vendor = 0
       THEN \E raw \in PowerInfoRaws, short \in BOOLEAN :
               LET r == read_msr(0, MSR_PKG_POWER_INFO,
                                 [x \in {MSR_PKG_POWER_INFO} |-> raw], short)
               IN  /\ reads' = <<r.call>>
                   /\ IF r.exited
                      THEN Exit(127) /\ UNCHANGED <<units, i>>
                      ELSE /\ units' = [units EXCEPT !.info = DecodePowerInfo(r.data)]
                           /\ pc' = ResetEntry
                           /\ i' = 0
                           /\ UNCHANGED exit_code
       ELSE /\ units' = [units EXCEPT !.info = NoPowerInfo]
            /\ reads' = <<>>
            /\ pc' = ResetEntry
            /\ i' = 0
            /\ UNCHANGED exit_code
    /\ UNCHANGED <<env, now, vendor, n_sockets, pp1_supported, sockets, first_lcoreid,
                   fd, fdtable, last_open, heap, brk, prev_state, current_state, next_state,
                   running_total, hist, nsamples, nresets, probe>>

----------------------------------------------------------------------------
(* Rapl::reset, one action per statement of the loop body for socket i.     *)

\* the number of calls of reset(), sample() and sample(int) a caller makes
MaxCalls == 2

\* the records a pointer of the object still leads to; the records of an earlier
\* reset() are leaked, nothing reads them again, and the model forgets them
Live(h, s) ==
    LET lost == {prev_state[s], current_state[s], next_state[s], running_total[s]}
    IN  [a \in DOMAIN h |-> IF a \in lost THEN Uninit("zeros") ELSE h[a]]

\* lines 121-124: four new records, uninitialized
Reset_new ==
    /\ Running /\ pc = "reset_new"
    /\ LET fs == env.fill_slots
           fr == env.fill_total
       IN heap' = Live(heap, i) @@ [a \in brk + 1 .. brk + 4 |->
                                      IF a = brk + 4 THEN Uninit(fr) ELSE Uninit(fs)]
    /\ prev_state' = [prev_state EXCEPT ![i] = brk + 1]
    /\ current_state' = [current_state EXCEPT ![i] = brk + 2]
    /\ next_state' = [next_state EXCEPT ![i] = brk + 3]
    /\ running_total' = [running_total EXCEPT ![i] = brk + 4]
    /\ brk' = brk + 4
    /\ hist' = [hist EXCEPT ![i] = NoHist]
    /\ pc' = "reset_sample1"
    /\ reads' = <<>>
    /\ UNCHANGED <<i, exit_code, env, now, vendor, n_sockets, pp1_supported, sockets,
                   first_lcoreid, fd, fdtable, last_open, units, nsamples, nresets, probe>>

\* lines 127-128: sample(i); sample(i);
Reset_sample1 ==
    /\ Running /\ pc = "reset_sample1"
    /\ \E regs \in Readings, adv \in ClockSteps,
          failAt \in 0 .. NumReads(SamplePlan(vendor, pp1_supported)) :
          sample(i, regs, failAt, adv, "reset_sample2", i)
    /\ UNCHANGED <<nsamples, nresets>>

Reset_sample2 ==
    /\ Running /\ pc = "reset_sample2"
    /\ \E regs \in Readings, adv \in ClockSteps,
          failAt \in 0 .. NumReads(SamplePlan(vendor, pp1_supported)) :
          sample(i, regs, failAt, adv, "reset_zero", i)
    /\ UNCHANGED <<nsamples, nresets>>

\* lines 131-134: pkg, pp0 and dram of the running total are set to 0 and its
\* tsc to the time of day
ZeroRunningTotal(rt, t) ==
    Set(Set(Set(Set(rt, "pkg", Zero64), "pp0", Zero64), "dram", Zero64), "tsc", t)

Reset_zero ==
    /\ Running /\ pc = "reset_zero"
    /\ \E adv \in ClockSteps :
          /\ now' = now + adv
          /\ heap' = [heap EXCEPT ![running_total[i]] = ZeroRunningTotal(@, now + adv)]
    /\ hist' = [hist EXCEPT ![i].base = [d \in Domains |-> heap[current_state[i]][d]],
                            ![i].n = 0, ![i].incr = TRUE, ![i].zeroed = TRUE]
    /\ i' = i + 1
    /\ pc' = IF i + 1 < n_sockets THEN "reset_new" ELSE "idle"
    /\ reads' = <<>>
    /\ UNCHANGED <<exit_code, env, vendor, n_sockets, pp1_supported, sockets,
                   first_lcoreid, fd, fdtable, last_open, units, brk, prev_state, current_state,
                   next_state, running_total, nsamples, nresets, probe>>

\* a caller calls reset()
CallReset ==
    /\ Running /\ pc = "idle"
    /\ nsamples + nresets < MaxCalls
    /\ nresets' = nresets + 1
    /\ pc' = ResetEntry
    /\ i' = 0
    /\ reads' = <<>>
    /\ UNCHANGED <<exit_code, env, now, vendor, n_sockets, pp1_supported, sockets,
                   first_lcoreid, fd, fdtable, last_open, units, heap, brk, prev_state,
                   current_state, next_state, running_total, hist, nsamples, probe>>

----------------------------------------------------------------------------
(* Rapl::sample() and a caller's Rapl::sample(int) *)

\* a caller calls sample(s)
CallSampleSocket ==
    /\ Running /\ pc = "idle"
    /\ nsamples + nresets < MaxCalls
    /\ \E s \in 0 .. n_sockets - 1, regs \in Readings, adv \in ClockSteps,
          failAt \in 0 .. NumReads(SamplePlan(vendor, pp1_supported)) :
          sample(s, regs, failAt, adv, "idle", i)
    /\ nsamples' = nsamples + 1
    /\ UNCHANGED nresets

\* a caller calls sample(): the loop starts at socket 0
CallSample ==
    /\ Running /\ pc = "idle"
    /\ nsamples + nresets < MaxCalls
    /\ pc' = IF 0 < n_sockets THEN "sample_all" ELSE "idle"
    /\ i' = 0
    /\ reads' = <<>>
    /\ UNCHANGED <<exit_code, env, now, vendor, n_sockets, pp1_supported, sockets,
                   first_lcoreid, fd, fdtable, last_open, units, heap, brk, prev_state,
                   current_state, next_state, running_total, hist, nsamples, nresets,
                   probe>>

\* a loop that samples socket 0 at every iteration
Sample_all_socket0 ==
    /\ Running /\ pc = "sample_all"
    /\ \E regs \in Readings, adv \in ClockSteps,
          failAt \in 0 .. NumReads(SamplePlan(vendor, pp1_supported)) :
          sample(0, regs, failAt, adv,
                 IF i + 1 < n_sockets THEN "sample_all" ELSE "idle", i + 1)
    /\ nsamples' = IF i + 1 < n_sockets THEN nsamples ELSE nsamples + 1
    /\ UNCHANGED nresets

\* one iteration of the loop of sample(): sample(i)
Sample_all ==
    /\ Running /\ pc = "sample_all"
    /\ \E regs \in Readings, adv \in ClockSteps,
          failAt \in 0 .. NumReads(SamplePlan(vendor, pp1_supported)) :
          sample(i, regs, failAt, adv,
                 IF i + 1 < n_sockets THEN "sample_all" ELSE "idle", i + 1)
    /\ nsamples' = IF i + 1 < n_sockets THEN nsamples ELSE nsamples + 1
    /\ UNCHANGED nresets

----------------------------------------------------------------------------
(* The queries: const functions of the object, so operators on the state.   *)
(* A double that the code computes as energy_units * num / den is held as   *)
(* [num, den]; a sum over the sockets is held as the sequence of its terms, *)
(* socket 0 first.                                                          *)

Prev(s) == heap[prev_state[s]]
Current(s) == heap[current_state[s]]
Total(s) == heap[running_total[s]]

ZeroTerm == [num |-> Zero64, den |-> 1]

\* Rapl::time_delta, in ticks
time_delta(begin, end) == end - begin

\* Rapl::power
power(before, after, td) ==
    IF td = 0 THEN ZeroTerm
    ELSE [num |-> energy_delta(before, after), den |-> td]

\* the sum p of the loop of pkg_/pp0_/pp1_/dram_current_power
current_power(d) ==
    [k \in 1 .. n_sockets |->
        power(Prev(k - 1)[d], Current(k - 1)[d],
              time_delta(Prev(k - 1).tsc, Current(k - 1).tsc))]

\* the sum p of the loop of pkg_/pp0_/pp1_/dram_total_energy
total_energy(d) == [k \in 1 .. n_sockets |-> [num |-> Total(k - 1)[d], den |-> 1]]

\* what a caller receives from a double function that ends without a return
\* statement: whatever the return register holds - the sum just computed, or
\* any other bits
NoReturnStatement(p) == {p} \cup {<<[num |-> FillWord(f), den |-> 1]>> : f \in Fills}

Queries == {"pkg_current_power", "pp0_current_power", "pp1_current_power",
            "dram_current_power", "pkg_total_energy", "pp0_total_energy",
            "pp1_total_energy", "dram_total_energy"}

\* the values a call of query q can return in the current state
Returned(q) ==
    CASE q = "pkg_current_power"  -> {current_power("pkg")}
      [] q = "pp0_current_power"  -> {current_power("pp0")}
      [] q = "pp1_current_power"  -> NoReturnStatement(current_power("pp1"))
      [] q = "dram_current_power" -> {current_power("dram")}
      [] q = "pkg_total_energy"   -> {total_energy("pkg")}
      [] q = "pp0_total_energy"   -> {total_energy("pp0")}
      [] q = "pp1_total_energy"   -> {total_energy("pp1")}
      [] q = "dram_total_energy"  -> {total_energy("dram")}

----------------------------------------------------------------------------
(* The machines the engine is constructed on.                               *)

\* cpuid leaf 0 vendor string and leaf 1 eax: a Coffee Lake (graphics plane),
\* a Sandy Bridge-E (no graphics plane) and a Zen 3
CoffeeLake   == [vendor_str |-> "GenuineIntel", eax |-> 591594]
SandyBridgeE == [vendor_str |-> "GenuineIntel", eax |-> 132823]
Zen3         == [vendor_str |-> "AuthenticAMD", eax |-> 10620688]

Cpus == {CoffeeLake, SandyBridgeE, Zen3}

\* the online list, the physical_package_id of cpu 0, 1, ..., and the cpus that
\* have a device node /dev/cpu/<n>/msr
TopoOneSocket  == [online |-> << <<0, 1>> >>, package_id |-> <<0, 0>>, present |-> 0 .. 1]
TopoTwoSockets == [online |-> << <<0, 3>> >>, package_id |-> <<0, 0, 1, 1>>,
                   present |-> 0 .. 3]
TopoSparseIds  == [online |-> << <<0, 1>> >>, package_id |-> <<0, 2>>, present |-> 0 .. 1]
TopoNoSysfs    == [online |-> << <<0, 1>> >>, package_id |-> <<0>>, present |-> 0 .. 1]

\* package_id as a function of the cpu id 0 .. n-1
CpuMap(ids) == [c \in 0 .. Len(ids) - 1 |-> ids[c + 1]]

\* fill_slots, fill_total: what new hands out, in this process, for the slot
\* records and for the running-total record
Machine(c, t, fs, fr) ==
    [vendor_str |-> c.vendor_str, eax |-> c.eax, online |-> t.online,
     package_id |-> CpuMap(t.package_id), present |-> t.present,
     fill_slots |-> fs, fill_total |-> fr]

Machines ==
    { Machine(c, TopoOneSocket, fs, fr) : c \in Cpus, fs \in Fills, fr \in Fills }
    \cup { Machine(CoffeeLake, TopoTwoSockets, "zeros", "ones"),
           Machine(Zen3, TopoSparseIds, "zeros", "zeros"),
           Machine(SandyBridgeE, TopoNoSysfs, "zeros", "zeros") }

NoProbe == [before |-> Zero64, after |-> Zero64, out |-> Zero64, done |-> FALSE]

Unconstructed ==
    /\ pc = "get_vendor"
    /\ i = 0
    /\ exit_code = NotExited
    /\ now = 0
    /\ vendor = -1
    /\ n_sockets = 0
    /\ pp1_supported = FALSE
    /\ sockets = [k \in SocketIdx |-> -1]
    /\ first_lcoreid = [k \in SocketIdx |-> -1]
    /\ fd = [k \in SocketIdx |-> -1]
    /\ fdtable = <<>>
    /\ last_open = [socket |-> -1, cpuCore |-> -1, outcome |-> "none"]
    /\ units = NoUnits
    /\ heap = <<>>
    /\ brk = 0
    /\ prev_state = NoPtrs
    /\ current_state = NoPtrs
    /\ next_state = NoPtrs
    /\ running_total = NoPtrs
    /\ reads = <<>>
    /\ hist = [k \in SocketIdx |-> NoHist]
    /\ nsamples = 0
    /\ nresets = 0

Init ==
    /\ env \in Machines
    /\ Unconstructed
    /\ probe = NoProbe

Next ==
    \/ Ctor_get_vendor
    \/ Ctor_get_n_sockets
    \/ Ctor_detect_pp1
    \/ Ctor_open_msr
    \/ Ctor_read_units
    \/ Ctor_power_info
    \/ Reset_new
    \/ Reset_sample1
    \/ Reset_sample2
    \/ Reset_zero
    \/ CallReset
    \/ CallSampleSocket
    \/ CallSample
    \/ Sample_all

Spec == Init /\ [][Next]_vars

----------------------------------------------------------------------------
(* The pure function energy_delta applied to boundary values of a 32-bit   *)
(* counter.                                                                *)

\* the counter values tried are 0 .. EdgeSpan-1 and 2^32-EdgeSpan .. 2^32-1,
\* and the two sides of 2^16 and of 2^31
EdgeSpan == 4

Edge32 ==
    {Lit(n) : n \in 0 .. EdgeSpan - 1}
    \cup {<<LimbBase - n, LimbBase - 1, 0, 0>> : n \in 1 .. EdgeSpan}
    \cup {<<LimbBase - 1, 0, 0, 0>>, <<0, 1, 0, 0>>,
          <<LimbBase - 1, 32767, 0, 0>>, <<0, 32768, 0, 0>>}

InitDelta ==
    /\ env \in {CHOOSE m \in Machines : TRUE}
    /\ Unconstructed
    /\ \E b \in Edge32, a \in Edge32 :
          probe = [before |-> b, after |-> a, out |-> Zero64, done |-> FALSE]

CallEnergyDelta ==
    /\ ~ probe.done
    /\ probe' = [probe EXCEPT !.out = energy_delta(probe.before, probe.after),
                              !.done = TRUE]
    /\ UNCHANGED <<pc, i, exit_code, env, now, vendor, n_sockets, pp1_supported,
                   sockets, first_lcoreid, fd, fdtable, last_open, units, heap, brk, prev_state,
                   current_state, next_state, running_total, reads, hist,
                   nsamples, nresets>>

NextDelta == CallEnergyDelta

SpecDelta == InitDelta /\ [][NextDelta]_vars

\* C1: for every pair of 32-bit counter values, energy_delta(before, after) is
\* (after - before) mod 2^32 and lies in [0, 2^32 - 1], also when after < before.
C1_DeltaIsDifferenceMod32 ==
    probe.done =>
        /\ probe.out = Mask32(Sub64(probe.after, probe.before))
        /\ Is32(probe.out)

----------------------------------------------------------------------------
(* Topology discovery alone, on every online list of at most MaxTokens      *)
(* tokens over the cpus 0 .. MaxCpuId and every assignment of packages.     *)

MaxCpuId == 3
MaxTokens == 2

\* a single cpu a, or a range a-b with a < b
Tokens == {<<a>> : a \in 0 .. MaxCpuId}
          \cup {t \in (0 .. MaxCpuId) \X (0 .. MaxCpuId) : t[1] < t[2]}

OnlineLists == UNION {[1 .. n -> Tokens] : n \in 1 .. MaxTokens}

TopoMachines ==
    { [vendor_str |-> Zen3.vendor_str, eax |-> Zen3.eax, online |-> o,
       package_id |-> p, present |-> 0 .. MaxCpuId,
       fill_slots |-> "zeros", fill_total |-> "zeros"] :
      o \in OnlineLists, p \in [0 .. MaxCpuId -> 0 .. 1] }

InitTopo ==
    /\ env \in TopoMachines
    /\ Unconstructed
    /\ probe = NoProbe

NextTopo ==
    \/ Ctor_get_vendor
    \/ Ctor_get_n_sockets

SpecTopo == InitTopo /\ [][NextTopo]_vars

\* the online cpus in the order of the list, and the packages they belong to
OnlineCpus == ParseOnline(env.online)

OnlinePackages == {env.package_id[OnlineCpus[k]] : k \in DOMAIN OnlineCpus}

\* the first online cpu of the list that belongs to package id
FirstOnlineCpuOf(id) ==
    LET ks == {k \in DOMAIN OnlineCpus : env.package_id[OnlineCpus[k]] = id}
    IN  OnlineCpus[CHOOSE k \in ks : \A j \in ks : k <= j]

TopologyDiscovered == pc = "detect_pp1"

\* C7: get_n_sockets returns the number of distinct package ids among the online
\* cpus and records, for each package id, the id of the first online cpu of the
\* list that belongs to it, whatever the online list and the package mapping.
C7_FirstCoreIsFirstOnlineCpu ==
    TopologyDiscovered =>
        /\ n_sockets = Cardinality(OnlinePackages)
        /\ \A id \in OnlinePackages : first_lcoreid[id] = FirstOnlineCpuOf(id)

----------------------------------------------------------------------------
(* Properties of the sampling engine.                                       *)

Sockets == 0 .. n_sockets - 1

\* reset() has finished with socket s: its slots are primed, its totals zeroed
Primed(s) == s \in Sockets /\ hist[s].zeroed

\* between calls, constructed
Idle == pc = "idle"

IsZeroSum(p) == \A k \in DOMAIN p : p[k].num = Zero64

TotalEnergyQueries == {"pkg_total_energy", "pp0_total_energy", "pp1_total_energy",
                       "dram_total_energy"}

CurrentPowerQueries == {"pkg_current_power", "pp0_current_power", "pp1_current_power",
                        "dram_current_power"}

\* C2: after reset() returns, and until a sample is taken, the running total of
\* each of the four domains of every socket is 0 and every *_total_energy()
\* returns 0.
C2_TotalsZeroAfterReset ==
    (Idle /\ \A s \in Sockets : hist[s].n = 0) =>
        /\ \A s \in Sockets : \A d \in Domains : Total(s)[d] = Zero64
        /\ \A q \in TotalEnergyQueries : \A v \in Returned(q) : IsZeroSum(v)

\* C3: after reset(), while every counter read grows strictly from sample to
\* sample, the running total of each of the four domains of a socket is that
\* domain's counter at the latest sample minus its counter at the last priming
\* sample.
C3_TotalIsSumOfOwnDeltas ==
    \A s \in Sockets :
        (Primed(s) /\ hist[s].n >= 1 /\ hist[s].incr) =>
            \A d \in Domains : Total(s)[d] = Sub64(Current(s)[d], hist[s].base[d])

\* previous and current of a primed socket are the last two snapshots captured
SlotsHoldCaptures ==
    \A s \in Sockets :
        Primed(s) =>
            /\ Len(hist[s].caps) = 2
            /\ Prev(s).wr = Fields /\ Snapshot(Prev(s)) = hist[s].caps[1]
            /\ Current(s).wr = Fields /\ Snapshot(Current(s)) = hist[s].caps[2]

\* every accumulator of a primed socket was assigned before it was added to
AccumulatorsInitialized == \A s \in Sockets : Primed(s) => Total(s).wr = Fields

\* C4: once a socket is primed, previous and current hold the last two snapshots
\* captured from the registers, and nothing a query reports comes from an
\* uninitialized snapshot or an uninitialized accumulator.
C4_NoUninitializedData == SlotsHoldCaptures /\ AccumulatorsInitialized

\* a step of sample() or sample(int) called by a caller (not one inside reset())
CallerSampleStep == pc \in {"idle", "sample_all"} /\ pc' \in {"idle", "sample_all", "exited"}

\* C5: across sample() / sample(int) calls with no reset() in between, no running
\* total of any domain of any socket decreases from one state to the next.
C5_TotalsNeverDecrease ==
    [][CallerSampleStep =>
          \A s \in Sockets : \A d \in Domains : Ge64(Total(s)'[d], Total(s)[d])]_vars

ZeroElapsed == \A s \in Sockets : Prev(s).tsc = Current(s).tsc

\* C6: when previous and current of every socket carry the same timestamp, each
\* of the four *_current_power() queries returns exactly 0.
C6_ZeroElapsedGivesZeroPower ==
    (Idle /\ ZeroElapsed) =>
        \A q \in CurrentPowerQueries : \A v \in Returned(q) : IsZeroSum(v)

\* the last step was a complete sample(s): every one of its reads came back whole
JustSampled(s) ==
    /\ reads # <<>>
    /\ reads[1].msr \in {MSR_PKG_ENERGY_STATUS, AMD_MSR_PACKAGE_ENERGY}
    /\ \A k \in DOMAIN reads : reads[k].ok /\ reads[k].socket = s

\* x is what the last step read from register m, masked to 32 bits
ReadInto(m, x) == \E k \in DOMAIN reads : reads[k].msr = m /\ x = Mask32(reads[k].data)

NotRead(m) == \A k \in DOMAIN reads : reads[k].msr # m

\* of pp1 and dram, exactly one is read - pp1 if the graphics plane is supported,
\* dram if not - and the other is zero
OneOfPp1DramRead(snap) ==
    IF pp1_supported
    THEN /\ ReadInto(MSR_PP1_ENERGY_STATUS, snap.pp1)
         /\ NotRead(MSR_DRAM_ENERGY_STATUS) /\ snap.dram = Zero64
    ELSE /\ ReadInto(MSR_DRAM_ENERGY_STATUS, snap.dram)
         /\ NotRead(MSR_PP1_ENERGY_STATUS) /\ snap.pp1 = Zero64

\* C8 as stated: every snapshot captured by sample(socket), for every vendor, has
\* exactly one of pp1 and dram read from its register and the other forced to
\* zero, chosen by pp1_supported.
C8_original ==
    \A s \in Sockets : JustSampled(s) => OneOfPp1DramRead(Current(s))

\* C8, amended: that holds of every snapshot captured on the Intel path; on the
\* AMD path neither register is read and pp1 and dram are both forced to zero.
C8_OneOfPp1DramOnIntel ==
    \A s \in Sockets :
        JustSampled(s) =>
            IF vendor = 0
            THEN OneOfPp1DramRead(Current(s))
            ELSE /\ NotRead(MSR_PP1_ENERGY_STATUS) /\ NotRead(MSR_DRAM_ENERGY_STATUS)
                 /\ Current(s).pp1 = Zero64 /\ Current(s).dram = Zero64

\* a caller's sample on an Intel cpu with the graphics plane captured a pp1 counter
C8_witness ==
    \E s \in Sockets :
        /\ JustSampled(s) /\ Primed(s) /\ hist[s].n >= 1
        /\ vendor = 0 /\ pp1_supported
        /\ Current(s).pp1 # Zero64 /\ Current(s).dram = Zero64

\* a pread of the last step came back short
ShortRead == \E k \in DOMAIN reads : ~ reads[k].ok

\* C9: a read_msr whose pread is short - in the constructor, in reset() or in a
\* later sample() - ends the process with code 127 at once: it is the last pread
\* made, nothing is returned to the caller, no running total is updated and no
\* slot is rotated; a process that has exited takes no further step.
C9_ShortReadExits127 ==
    [][/\ Running
       /\ ShortRead' =>
            /\ exit_code' = 127 /\ pc' = "exited"
            /\ \A k \in DOMAIN reads' : ~ reads'[k].ok => k = Len(reads')
            /\ units' = units /\ now' = now
            /\ running_total' = running_total
            /\ prev_state' = prev_state
            /\ current_state' = current_state
            /\ next_state' = next_state
            /\ \A s \in Sockets : running_total[s] # NullPtr => Total(s)' = Total(s)]_vars

\* the second or third read of a sample of a primed socket came back short
C9_witness ==
    /\ exit_code = 127 /\ ShortRead /\ Len(reads) >= 2
    /\ Primed(reads[1].socket)

\* C10: a failed open ends the process with 2 for ENXIO, 3 for EIO and 127 for any
\* other error; after a successful open the socket's handle is valid, it is the
\* device of the core asked for, and the process goes on (it can only end
\* later, on a short read).
C10_OpenMsrExitCodes ==
    /\ last_open.outcome = "ENXIO" => exit_code = 2
    /\ last_open.outcome = "EIO" => exit_code = 3
    /\ last_open.outcome \in {"EACCES", "ENOENT"} => exit_code = 127
    /\ last_open.outcome = "ok" =>
          /\ fd[last_open.socket] >= 0
          /\ fdtable[fd[last_open.socket] - FirstFd + 1] = last_open.cpuCore
          /\ ~ Running => ShortRead

\* open answered EIO and the process ended with 3
C10_witness == last_open.outcome = "EIO" /\ exit_code = 3 /\ pc = "exited"

----------------------------------------------------------------------------
(* The order of construction.                                               *)

\* the position of a step in Rapl::Rapl: vendor, topology, graphics-domain probe,
\* open, units, power info, reset(), returned
CtorRank(p) ==
    CASE p = "get_vendor"    -> 0
      [] p = "get_n_sockets" -> 1
      [] p = "detect_pp1"    -> 2
      [] p = "open_msr"      -> 3
      [] p = "read_units"    -> 4
      [] p = "power_info"    -> 5
      [] p \in {"reset_new", "reset_sample1", "reset_sample2", "reset_zero"} -> 6
      [] OTHER               -> 7

\* the constructor has not returned yet
InConstructor == Running /\ nresets = 0 /\ nsamples = 0 /\ CtorRank(pc) < 7

\* the constructor has returned and the caller has called nothing yet
ConstructorDone == Running /\ nresets = 0 /\ nsamples = 0 /\ pc = "idle"

HandleOpened(s) == fd[s] >= FirstFd /\ fd[s] - FirstFd + 1 \in DOMAIN fdtable

UnitsCalibrated == units.power_units >= 0 /\ units.energy_units >= 0 /\ units.time_units >= 0

\* what each stage of construction finds done by the stages before it
CtorStagesDone ==
    /\ \A k \in DOMAIN reads :
          reads[k].fd = fd[reads[k].socket] /\ HandleOpened(reads[k].socket)
    /\ (Running /\ CtorRank(pc) >= 1) => vendor \in {0, 1}
    /\ (Running /\ CtorRank(pc) >= 2) => n_sockets >= 1
    /\ (Running /\ CtorRank(pc) >= 4) => \A s \in Sockets : HandleOpened(s)
    /\ (Running /\ CtorRank(pc) >= 5) => UnitsCalibrated
    /\ (\E s \in SocketIdx : hist[s].caps # <<>>) => UnitsCalibrated
    /\ pc = "reset_sample1" => hist[i].n = 0 /\ hist[i].caps = <<>>
    /\ pc = "reset_sample2" => hist[i].n = 1 /\ Len(hist[i].caps) = 1
    /\ pc = "reset_zero" => hist[i].n = 2 /\ Len(hist[i].caps) = 2
    /\ ConstructorDone => \A s \in Sockets : Primed(s) /\ Len(hist[s].caps) = 2

\* C11: the constructor goes through vendor detection, topology discovery, the
\* graphics-domain probe, the opens, unit calibration and priming in that order;
\* every pread is on an opened handle of its socket, units are calibrated before
\* any sample, and each socket has been sampled exactly twice when it returns.
C11_ConstructionOrder ==
    /\ [] CtorStagesDone
    /\ [][(InConstructor /\ pc' # "exited") =>
             /\ CtorRank(pc') \in {CtorRank(pc), CtorRank(pc) + 1}
             /\ (pc' = "idle" => pc = "reset_zero")]_vars

\* the constructor returned on the two-socket machine, both sockets primed
C11_witness ==
    /\ ConstructorDone /\ n_sockets = 2
    /\ \A s \in Sockets : Primed(s) /\ HandleOpened(s)

----------------------------------------------------------------------------
(* Rapl::sample() against Rapl::sample(int).                                *)

\* the step is what sample(s) does for some contents of the registers, with
\* the clock advancing as it did and the last pread short if the process ended
IsSampleOf(s) ==
    /\ reads' # <<>>
    /\ \E regs \in {r \in Readings :
                      reads'[1].ok => r[reads'[1].msr] = reads'[1].data} :
          sample(s, regs, IF pc' = "exited" THEN Len(reads') ELSE 0, now' - now, pc', i')

\* C12: sample() starts at socket 0, each iteration of its loop is sample(i)
\* for the loop index i - it samples socket i once and no other socket - and
\* the index goes up by one until it reaches n_sockets, where the call returns.
C12_SampleAllAscending ==
    [][/\ (pc = "idle" /\ pc' = "sample_all") => i' = 0
       /\ pc = "sample_all" =>
            /\ i \in Sockets
            /\ IsSampleOf(i)
            /\ pc' # "exited" =>
                 /\ i' = i + 1
                 /\ pc' = (IF i + 1 < n_sockets THEN "sample_all" ELSE "idle")
                 /\ hist'[i].n = hist[i].n + 1
                 /\ \A s \in Sockets \ {i} : hist'[s] = hist[s]
                 /\ \A k \in DOMAIN reads' : reads'[k].socket = i]_vars

\* one call of sample() on two sockets has returned: each was sampled once,
\* socket 1 last
C12_witness ==
    /\ pc = "idle" /\ n_sockets = 2 /\ nsamples = 1 /\ nresets = 0
    /\ hist[0].n = 1 /\ hist[1].n = 1
    /\ JustSampled(1)

----------------------------------------------------------------------------
(* Unit calibration alone: the decoding of lines 97-99 applied to raw       *)
(* values built from the three fields and from bits outside them.           *)

PowerFields  == {0, 3, 15}
EnergyFields == {0, 14, 16, 31}
TimeFields   == {0, 10, 15}

\* which bits outside the three fields are set: bits 4-7 and 13-15 (low), bits
\* 20-63 (high)
Outside == {"none", "low", "high", "all"}

\* the 64-bit register value with the fields p, e, t at bits [3:0], [12:8], [19:16]
UnitRegister(p, e, t, g) ==
    LET low  == IF g \in {"low", "all"} THEN 240 + 57344 ELSE 0
        high == IF g \in {"high", "all"} THEN LimbBase - 1 ELSE 0
    IN  <<p + 256 * e + low, t + (high \div 16) * 16, high, high>>

InitUnits ==
    /\ env \in {CHOOSE m \in Machines : TRUE}
    /\ Unconstructed
    /\ \E p \in PowerFields, e \in EnergyFields, t \in TimeFields, g \in Outside :
          probe = [fields |-> [power_units |-> p, energy_units |-> e, time_units |-> t],
                   raw |-> UnitRegister(p, e, t, g), outside |-> g,
                   out |-> [power_units |-> -1, energy_units |-> -1, time_units |-> -1],
                   done |-> FALSE]

CallDecodeUnits ==
    /\ ~ probe.done
    /\ probe' = [probe EXCEPT !.out = DecodeUnits(probe.raw), !.done = TRUE]
    /\ UNCHANGED <<pc, i, exit_code, env, now, vendor, n_sockets, pp1_supported,
                   sockets, first_lcoreid, fd, fdtable, last_open, units, heap, brk,
                   prev_state, current_state, next_state, running_total, reads, hist,
                   nsamples, nresets>>

NextUnits == CallDecodeUnits

SpecUnits == InitUnits /\ [][NextUnits]_vars

\* C13: the exponents decoded from the unit register are its bits [3:0] (power),
\* [12:8] (energy) and [19:16] (time), whatever the bits outside these fields
\* are; the scale factors 2^-n are then in (0, 1]; sub-fields 0b0011, 0b01110
\* and 0b1010 give 3, 14 and 10.
C13_UnitExponents ==
    probe.done =>
        /\ probe.out = probe.fields
        /\ probe.out.power_units \in 0 .. 15
        /\ probe.out.energy_units \in 0 .. 31
        /\ probe.out.time_units \in 0 .. 15

\* the example register, with every bit outside the fields set, was decoded
C13_witness ==
    /\ probe.done /\ probe.outside = "all"
    /\ probe.raw = <<3 + 14 * 256 + 240 + 57344, 10 + 65520, 65535, 65535>>
    /\ probe.out = [power_units |-> 3, energy_units |-> 14, time_units |-> 10]

----------------------------------------------------------------------------
(* The piecewise rule of energy_delta.                                      *)

\* 2^32 - 1
Max32 == <<LimbBase - 1, LimbBase - 1, 0, 0>>

\* C14: for 32-bit before and after, energy_delta returns after - before when
\* after >= before - so 0 for before = after, and 2^32 - 1 for before = 0 and
\* after = 2^32 - 1 - and after + (2^32 - 1 - before) when after < before.
C14_DeltaPiecewise ==
    probe.done =>
        /\ Ge64(probe.after, probe.before) =>
              probe.out = Sub64(probe.after, probe.before)
        /\ probe.after = probe.before => probe.out = Zero64
        /\ (probe.before = Zero64 /\ probe.after = Max32) => probe.out = Max32
        /\ Gt64(probe.before, probe.after) =>
              probe.out = Add64(probe.after, Sub64(Max32, probe.before))

\* the counter wrapped from 2^32 - 2 to 1: the delta returned is 2
C14_witness ==
    /\ probe.done
    /\ probe.before = <<LimbBase - 2, LimbBase - 1, 0, 0>> /\ probe.after = Lit(1)
    /\ probe.out = Lit(2)

----------------------------------------------------------------------------
(* The ring of three slots.                                                 *)

Slots(s) == {prev_state[s], current_state[s], next_state[s]}

\* the step completed one sample of socket s
SampledStep(s) == hist'[s].n = hist[s].n + 1

\* the slots of every socket that has them are three different records
SlotsDistinct ==
    \A s \in SocketIdx :
        prev_state[s] # NullPtr => Cardinality(Slots(s)) = 3 /\ NullPtr \notin Slots(s)

\* C15: a sample of socket s only relabels its slots - the new previous is the
\* old current with its contents, the new current is the old next holding the
\* snapshot just captured, the new next is the old previous; the three slots
\* are always different records, the same three before and after, and no record
\* is allocated.
C15_RotationRelabelsOnly ==
    /\ [] SlotsDistinct
    /\ [][\A s \in Sockets :
            SampledStep(s) =>
              /\ prev_state'[s] = current_state[s]
              /\ current_state'[s] = next_state[s]
              /\ next_state'[s] = prev_state[s]
              /\ Slots(s)' = Slots(s)
              /\ heap'[prev_state'[s]] = heap[current_state[s]]
              /\ Snapshot(heap'[current_state'[s]]) = hist'[s].caps[Len(hist'[s].caps)]
              /\ brk' = brk
              /\ DOMAIN heap' = DOMAIN heap]_vars

\* after the two priming samples and one sample by the caller the three
\* records are back in the positions they were allocated in
C15_witness ==
    /\ n_sockets = 1 /\ nresets = 0 /\ Primed(0) /\ hist[0].n = 1
    /\ prev_state[0] = 1 /\ current_state[0] = 2 /\ next_state[0] = 3
    /\ JustSampled(0)

----------------------------------------------------------------------------
(* The graphics-plane total follows the core-plane counter.                 *)

\* C16: every sample of a socket adds to its pp1 running total the pp0 delta
\* between the old current snapshot and the one just captured: the pp1 total
\* grows by what the pp0 total grows by, whatever the pp1 counters are.
C16_Pp1TotalGrowsByPp0Delta ==
    [][\A s \in Sockets :
          SampledStep(s) =>
            /\ Sub64(Total(s)'.pp1, Total(s).pp1)
                 = energy_delta(Current(s).pp0, Current(s)'.pp0)
            /\ Sub64(Total(s)'.pp1, Total(s).pp1)
                 = Sub64(Total(s)'.pp0, Total(s).pp0)]_vars

\* a caller's sample in which the pp1 counter moved by another amount than the
\* pp0 counter
C16_witness ==
    \E s \in Sockets :
        /\ Primed(s) /\ hist[s].n = 1 /\ JustSampled(s) /\ pp1_supported
        /\ Total(s).pp0 = Lit(5)
        /\ energy_delta(Prev(s).pp1, Current(s).pp1) = Lit(7)

----------------------------------------------------------------------------
(* The AMD path.                                                            *)

\* on AMD a complete sample reads the package energy register and nothing else,
\* and the snapshot it captures has pp0, pp1 and dram zero
AmdSnapshots ==
    \A s \in Sockets :
        (vendor = 1 /\ JustSampled(s)) =>
            /\ \A k \in DOMAIN reads : reads[k].msr = AMD_MSR_PACKAGE_ENERGY
            /\ Len(reads) = 1
            /\ \A d \in {"pp0", "pp1", "dram"} : Current(s)[d] = Zero64

\* on AMD the pp0, pp1 and dram running totals of a socket are 0 from the end of
\* reset() on
AmdTotalsZero ==
    \A s \in Sockets :
        (vendor = 1 /\ Primed(s)) =>
            \A d \in {"pp0", "pp1", "dram"} : Total(s)[d] = Zero64

\* C17: on the AMD path sample(socket) reads only the package energy register,
\* every snapshot captured has pp0, pp1 and dram zero, and the pp0, pp1 and dram
\* running totals of every socket are 0 after reset() and any samples that follow.
C17_AmdOnlyPackage == AmdSnapshots /\ AmdTotalsZero

----------------------------------------------------------------------------
(* Average power and the time it divides by.                                *)

\* Rapl::total_time, in ticks: socket 0 is the reference socket
total_time == time_delta(Total(0).tsc, Current(0).tsc)

\* Rapl::pkg_/pp0_/pp1_/dram_average_power: total energy / total_time(), with
\* no test of the divisor
average_power(d) == [num |-> total_energy(d), den |-> total_time]

\* C18: whenever the object is constructed and between calls - also right after
\* reset() returns - the start timestamp of socket 0's running total is not
\* later than the timestamp of its current snapshot, so total_time() is not
\* negative, and the divisor of an average-power query made then is positive.
C18_TotalTimePositive ==
    Idle =>
        /\ Total(0).tsc <= Current(0).tsc
        /\ total_time >= 0
        /\ \A d \in Domains : average_power(d).den > 0

----------------------------------------------------------------------------
(* Socket indices and discovered packages.                                  *)

\* the package ids get_n_sockets found
Discovered == {id \in SocketIdx : sockets[id] = 1}

\* C19: once topology discovery has returned, every socket index below
\* n_sockets is a discovered package with a representative core (not -1), an
\* open is made for such an index on its representative core, and when the
\* opens are done there is exactly one handle per discovered package, on its
\* representative core.
C19_IndicesAreDiscoveredPackages ==
    /\ CtorRank(pc) >= 2 =>
          \A idx \in Sockets : idx \in Discovered /\ first_lcoreid[idx] # -1
    /\ last_open.outcome # "none" =>
          /\ last_open.socket \in Discovered
          /\ last_open.cpuCore = first_lcoreid[last_open.socket]
          /\ last_open.cpuCore # -1
    /\ (Running /\ CtorRank(pc) >= 4) =>
          /\ Len(fdtable) = Cardinality(Discovered)
          /\ \A id \in Discovered :
                HandleOpened(id) /\ fdtable[fd[id] - FirstFd + 1] = first_lcoreid[id]

----------------------------------------------------------------------------
(* What a sample leaves alone.                                              *)

\* the step ran sample(s), to its end or to a short read
SampleAttempt(s) ==
    /\ reads' # <<>>
    /\ reads'[1].socket = s
    /\ reads'[1].msr \in {MSR_PKG_ENERGY_STATUS, AMD_MSR_PACKAGE_ENERGY}

\* the slots and the running total of socket j are allocated
Allocated(j) == prev_state[j] # NullPtr /\ running_total[j] # NullPtr

\* C20: a sample(s) changes nothing of another socket j - not its snapshots,
\* not which record is its previous, current and next slot, not its running
\* total or start timestamp - and leaves the start timestamp of socket s, the
\* previous and current snapshots it found, and the rest of the object as
\* they were.
C20_SampleTouchesOnlyItsSocket ==
    [][\A s \in Sockets :
          SampleAttempt(s) =>
            /\ \A j \in Sockets \ {s} :
                  /\ prev_state'[j] = prev_state[j]
                  /\ current_state'[j] = current_state[j]
                  /\ next_state'[j] = next_state[j]
                  /\ running_total'[j] = running_total[j]
                  /\ hist'[j] = hist[j]
                  /\ Allocated(j) =>
                        /\ Slots(j) \cap Slots(s) = {}
                        /\ running_total[j] \notin Slots(s) \cup {running_total[s]}
                        /\ \A a \in Slots(j) \cup {running_total[j]} : heap'[a] = heap[a]
            /\ running_total'[s] = running_total[s]
            /\ Total(s)'.tsc = Total(s).tsc
            /\ heap'[prev_state[s]] = heap[prev_state[s]]
            /\ heap'[current_state[s]] = heap[current_state[s]]
            /\ <<vendor, n_sockets, pp1_supported, sockets, first_lcoreid, fd, fdtable,
                 units, brk>>' =
               <<vendor, n_sockets, pp1_supported, sockets, first_lcoreid, fd, fdtable,
                 units, brk>>]_vars

\* the caller sampled socket 1 of two primed sockets
C20_witness ==
    /\ n_sockets = 2 /\ Primed(0) /\ Primed(1)
    /\ JustSampled(1) /\ hist[1].n = 1 /\ hist[0].n = 0
    /\ Total(1).tsc # Current(1).tsc

====
